---------------------------- MODULE Spec2Model ----------------------------
(***************************************************************************)
(* State-machine model of recallbricks.runtime.AgentRuntime: construction  *)
(* (remote handshake, or local spawn + readiness probe + handshake), the   *)
(* public RPC operations and the teardown paths (__exit__, the atexit      *)
(* hook, __del__).                                                         *)
(*                                                                         *)
(* Environment: every HTTP request is answered by a response drawn from    *)
(* Responses (a connection/timeout failure, or a status code).  The child  *)
(* process exits only in answer to a terminate signal; whether it exits    *)
(* inside the 5 s grace period of Popen.wait is the environment's choice.  *)
(* subprocess.Popen.terminate() sends no signal once the handle has        *)
(* recorded the child's exit (returncode is set).                          *)
(***************************************************************************)
EXTENDS Integers, Sequences, FiniteSets, TLC

VARIABLES
    use_local_runtime,  \* constructor argument, self.use_local_runtime
    pc,                 \* position of the calling application
    runtime_url,        \* self._runtime_url
    runtime_process,    \* self._runtime_process
    child,              \* the spawned OS process
    spawns,             \* number of subprocess.Popen(...) calls
    probes,             \* number of GET /health requests issued
    last_health,        \* status of the latest /health response (0: none)
    atexit_hooks,       \* callbacks registered with atexit
    signals,            \* terminate signals delivered to the child
    stopLog,            \* one entry per _stop_local_runtime invocation
    finalized,          \* __del__ has run
    calls,              \* /init and operation requests, in order
    init_status,        \* status of the /init response (0: none)
    outcome,            \* what the latest constructor/operation gave the caller
    constructed,        \* __init__ returned normally
    endedBy,            \* how a constructed session ended
    options,            \* constructor arguments, stored as self.options
    init_payload,       \* JSON bodies of the /init requests sent
    invocations,        \* number of public-operation invocations
    last_body,          \* body of the latest operation response
    waited,             \* time.sleep ran in the latest probe iteration
    tpc,                \* concurrent teardown: position of each request
    sessions,           \* two sessions on one host: per-session state
    port_owner          \* two sessions on one host: whose child holds the port

vars == << use_local_runtime, pc, runtime_url, runtime_process, child, spawns,
           probes, last_health, atexit_hooks, signals, stopLog, finalized,
           calls, init_status, outcome, constructed, endedBy, options,
           init_payload, invocations, last_body, waited, tpc, sessions,
           port_owner >>

-----------------------------------------------------------------------------
(* Bounds and program constants *)

MaxOps == 2

max_retries == 30

None == "None"

api_url == "https://recallbricks-api-clean.onrender.com"

local_url == "http://localhost:3000"

HttpStatuses == {200, 204, 404, 500}

\* A response of the transport: no exchange (requests raised a
\* RequestException: connection refused, timeout) or an HTTP status.
Responses ==
    {[exchange |-> FALSE, status_code |-> 0]} \cup
    {[exchange |-> TRUE, status_code |-> s] : s \in HttpStatuses}

Bodies == {"record", "empty"}

\* What a response carries: nothing without an exchange, an error text with
\* a non-2xx status, else a JSON body with or without the optional record.
BodiesOf(r) ==
    IF ~r.exchange THEN {"none"}
    ELSE IF r.status_code >= 200 /\ r.status_code <= 299 THEN Bodies
    ELSE {"text"}

\* The teardown requests that can run side by side: __exit__ on the thread
\* leaving the with-block, the atexit hook on the exiting main thread.
Teardowns == {"__exit__", "atexit"}

\* Two sessions constructed on one host.
Sessions == {1, 2}

NewSession == [pc |-> "start", child |-> "none", probes |-> 0, backend |-> 0]

\* Constructor arguments (runtime.py:46-62, types.py:21-36).
ValidOptions ==
    [agent_id |-> "a1", user_id |-> "u1", cache_ttl |-> 300000,
     max_context_tokens |-> 4000]

Configs ==
    {ValidOptions,
     [ValidOptions EXCEPT !.agent_id = ""],
     [ValidOptions EXCEPT !.user_id = ""],
     [ValidOptions EXCEPT !.cache_ttl = -1],
     [ValidOptions EXCEPT !.max_context_tokens = -1]}

\* runtime.py:175-191  _options_to_dict
options_to_dict(o) ==
    [agentId |-> o.agent_id, userId |-> o.user_id, cacheTTL |-> o.cache_ttl,
     maxContextTokens |-> o.max_context_tokens]

Is2xx(s) == s >= 200 /\ s <= 299

Routes ==
    [chat |-> "/chat", get_context |-> "/context", get_identity |-> "/identity",
     refresh_context |-> "/context/refresh",
     get_conversation_history |-> "/history",
     clear_conversation_history |-> "/history/clear",
     flush |-> "/flush", get_validation_stats |-> "/stats/validation"]

Operations == DOMAIN Routes

-----------------------------------------------------------------------------
(* Error taxonomy and outcomes reaching the caller *)

Returned(op, r, result) ==
    [op |-> op, response |-> r, raised |-> "none", status_code |-> -1,
     result |-> result]

Raised(op, r, exc) ==
    [op |-> op, response |-> r, raised |-> exc, status_code |-> -1,
     result |-> "none"]

APIError_default_status(op, r, status) ==
    [op |-> op, response |-> r, raised |-> "APIError", status_code |-> 500,
     result |-> "none"]

APIError(op, r, status) ==
    [op |-> op, response |-> r, raised |-> "APIError", status_code |-> status,
     result |-> "none"]

-----------------------------------------------------------------------------
(* Pure parts of the handlers *)

\* runtime.py:138  "if response.status_code == 200: ... break"; a
\* RequestException is caught at line 142 and the loop goes on.
probe_ready_any_response(r) == r.exchange

probe_ready(r) == r.exchange /\ r.status_code = 200

\* runtime.py:142-143  time.sleep(0.1) runs only in the except branch.
sleeps_after(r) == ~r.exchange

\* runtime.py:148  atexit.register(self._stop_local_runtime)
register_cleanup_skipped(hooks) == hooks

register_cleanup(hooks) == hooks \cup {"_stop_local_runtime"}

\* runtime.py:110  self._runtime_url = api_url
remote_endpoint_local == local_url

remote_endpoint == api_url

\* runtime.py:119-120  port = 3000; self._runtime_url = f"http://localhost:{port}"
local_endpoint == local_url

\* runtime.py:161-173  _initialize_remote_runtime: requests.post is not
\* wrapped in try/except, so a RequestException propagates as it is.
initialize_remote_runtime_unchecked(r) ==
    IF ~r.exchange THEN Raised("__init__", r, "RequestException")
    ELSE Returned("__init__", r, None)

initialize_remote_runtime(r) ==
    IF ~r.exchange THEN Raised("__init__", r, "RequestException")
    ELSE IF r.status_code # 200 THEN APIError("__init__", r, r.status_code)
    ELSE Returned("__init__", r, None)

\* Decoding of a 200 body by each public operation.
decode(op, body) ==
    CASE op = "chat" ->
            IF body = "record" THEN "ChatResponse" ELSE "KeyError"
      [] op = "get_context" ->
            IF body = "record" THEN "MemoryContext" ELSE None
      [] op = "get_identity" ->
            IF body = "record" THEN "AgentIdentity" ELSE None
      [] op = "get_validation_stats" ->
            IF body = "record" THEN "ValidationStats" ELSE None
      [] op = "get_conversation_history" -> "List"
      [] OTHER -> None

\* The pattern shared by the eight public operations: one request, raise
\* APIError(text, status_code) unless the status is 200, then decode.
operation_outcome(op, r, body) ==
    IF ~r.exchange THEN Raised(op, r, "RequestException")
    ELSE IF r.status_code # 200 THEN APIError(op, r, r.status_code)
    ELSE IF decode(op, body) = "KeyError" THEN Raised(op, r, "KeyError")
    ELSE Returned(op, r, decode(op, body))

request(route) == [route |-> route, url |-> runtime_url]

NoOutcome == Returned("none", [exchange |-> FALSE, status_code |-> 0], "none")

-----------------------------------------------------------------------------
InitSession ==
    /\ use_local_runtime \in BOOLEAN
    /\ pc = "start"
    /\ runtime_url = None
    /\ runtime_process = None
    /\ child = "none"
    /\ spawns = 0
    /\ probes = 0
    /\ last_health = 0
    /\ atexit_hooks = {}
    /\ signals = 0
    /\ stopLog = << >>
    /\ finalized = FALSE
    /\ calls = << >>
    /\ init_status = 0
    /\ outcome = NoOutcome
    /\ constructed = FALSE
    /\ endedBy = "none"
    /\ init_payload = << >>
    /\ invocations = 0
    /\ last_body = "none"
    /\ waited = FALSE
    /\ tpc = [t \in Teardowns |-> "idle"]
    /\ sessions = [s \in Sessions |-> NewSession]
    /\ port_owner = 0

\* The session is constructed with a configuration of the documented shape.
Init == InitSession /\ options = ValidOptions

\* The session is constructed with any configuration, valid or not.
InitAnyConfig == InitSession /\ options \in Configs

-----------------------------------------------------------------------------
(* Construction *)

\* The handshake (lines 161-173) and its effect on the constructing call.
Handshake(url, r) ==
    /\ calls' = Append(calls, [route |-> "/init", url |-> url])
    /\ init_status' = r.status_code
    /\ init_payload' = Append(init_payload, options_to_dict(options))
    /\ UNCHANGED << options, invocations, last_body, waited,
                    tpc, sessions, port_owner >>
    /\ outcome' = initialize_remote_runtime(r)
    /\ constructed' = (initialize_remote_runtime(r).raised = "none")
    /\ pc' = IF initialize_remote_runtime(r).raised = "none"
             THEN "live" ELSE "failed"

\* __init__ with use_local_runtime = False (lines 82-111).
init_remote ==
    /\ pc = "start"
    /\ ~use_local_runtime
    /\ runtime_url' = remote_endpoint
    /\ \E r \in Responses : Handshake(remote_endpoint, r)
    /\ UNCHANGED << use_local_runtime, runtime_process, child, spawns, probes,
                    last_health, atexit_hooks, signals, stopLog, finalized,
                    endedBy,
                    tpc, sessions, port_owner >>

\* __init__ with use_local_runtime = True up to the Popen call
\* (lines 82-108, 113-131).
start_local_runtime_spawn ==
    /\ pc = "start"
    /\ use_local_runtime
    /\ runtime_url' = local_endpoint
    /\ runtime_process' = "Popen"
    /\ child' = "running"
    /\ spawns' = spawns + 1
    /\ pc' = "probing"
    /\ UNCHANGED << use_local_runtime, probes, last_health, atexit_hooks,
                    signals, stopLog, finalized, calls, init_status, outcome,
                    constructed, endedBy, options, init_payload, invocations,
                    last_body, waited,
                    tpc, sessions, port_owner >>

\* Popen raises (the node executable is missing): line 120 has run, line
\* 126 assigns nothing, and the OSError leaves __init__ as it is.
start_local_runtime_spawn_fails ==
    /\ pc = "start"
    /\ use_local_runtime
    /\ runtime_url' = local_endpoint
    /\ pc' = "failed"
    /\ outcome' = Raised("Popen", [exchange |-> FALSE, status_code |-> 0],
                         "OSError")
    /\ UNCHANGED << use_local_runtime, runtime_process, child, spawns, probes,
                    last_health, atexit_hooks, signals, stopLog, finalized,
                    calls, init_status, constructed, endedBy, options,
                    init_payload, invocations, last_body, waited,
                    tpc, sessions, port_owner >>

\* One iteration of the readiness loop (lines 135-143).
start_local_runtime_probe ==
    /\ pc = "probing"
    /\ probes < max_retries
    /\ \E r \in Responses :
          /\ probes' = probes + 1
          /\ last_health' = r.status_code
          /\ pc' = IF probe_ready(r) THEN "healthy" ELSE "probing"
          /\ waited' = sleeps_after(r)
    /\ UNCHANGED << use_local_runtime, runtime_url, runtime_process, child,
                    spawns, atexit_hooks, signals, stopLog, finalized, calls,
                    init_status, outcome, constructed, endedBy, options,
                    init_payload, invocations, last_body,
                    tpc, sessions, port_owner >>

\* The loop's else clause (lines 144-145): the budget is spent.
start_local_runtime_exhausted ==
    /\ pc = "probing"
    /\ probes = max_retries
    /\ pc' = "failed"
    /\ outcome' = Raised("_start_local_runtime",
                         [exchange |-> last_health # 0,
                          status_code |-> last_health],
                         "RecallBricksError")
    /\ UNCHANGED << use_local_runtime, runtime_url, runtime_process, child,
                    spawns, probes, last_health, atexit_hooks, signals,
                    stopLog, finalized, calls, init_status, constructed,
                    endedBy, options, init_payload, invocations, last_body,
                    waited,
                    tpc, sessions, port_owner >>

\* After the break: register the cleanup and do the handshake
\* (lines 147-151).
start_local_runtime_initialize ==
    /\ pc = "healthy"
    /\ atexit_hooks' = register_cleanup(atexit_hooks)
    /\ \E r \in Responses : Handshake(runtime_url, r)
    /\ UNCHANGED << use_local_runtime, runtime_url, runtime_process, child,
                    spawns, probes, last_health, signals, stopLog, finalized,
                    endedBy,
                    tpc, sessions, port_owner >>

-----------------------------------------------------------------------------
(* Public operations (lines 193-345): each is one request to              *)
(* self._runtime_url and the status check, atomically.                    *)

\* Variants of Operation with a plausible slip: the endpoint is dropped
\* when the call fails; a failed call is sent a second time.
Operation_resets_endpoint(op) ==
    /\ pc = "live"
    /\ Len(calls) < 1 + MaxOps
    /\ calls' = Append(calls, request(Routes[op]))
    /\ invocations' = invocations + 1
    /\ \E r \in Responses :
          \E body \in BodiesOf(r) :
              /\ outcome' = operation_outcome(op, r, body)
              /\ last_body' = body
              /\ runtime_url' = IF operation_outcome(op, r, body).raised = "none"
                                THEN runtime_url ELSE None
    /\ UNCHANGED << use_local_runtime, pc, runtime_process,
                    child, spawns, probes, last_health, atexit_hooks, signals,
                    stopLog, finalized, init_status, constructed, endedBy,
                    options, init_payload, waited,
                    tpc, sessions, port_owner >>

Operation_retries(op) ==
    /\ pc = "live"
    /\ Len(calls) < 1 + MaxOps
    /\ invocations' = invocations + 1
    /\ \E r \in Responses :
          \E body \in BodiesOf(r) :
              /\ outcome' = operation_outcome(op, r, body)
              /\ last_body' = body
              /\ calls' = IF operation_outcome(op, r, body).raised = "none"
                          THEN Append(calls, request(Routes[op]))
                          ELSE calls \o << request(Routes[op]),
                                          request(Routes[op]) >>
    /\ UNCHANGED << use_local_runtime, pc, runtime_url, runtime_process,
                    child, spawns, probes, last_health, atexit_hooks, signals,
                    stopLog, finalized, init_status, constructed, endedBy,
                    options, init_payload, waited,
                    tpc, sessions, port_owner >>

Operation(op) ==
    /\ pc = "live"
    /\ Len(calls) < 1 + MaxOps
    /\ calls' = Append(calls, request(Routes[op]))
    /\ invocations' = invocations + 1
    /\ \E r \in Responses :
          \E body \in BodiesOf(r) :
              /\ outcome' = operation_outcome(op, r, body)
              /\ last_body' = body
    /\ UNCHANGED << use_local_runtime, pc, runtime_url, runtime_process,
                    child, spawns, probes, last_health, atexit_hooks, signals,
                    stopLog, finalized, init_status, constructed, endedBy,
                    options, init_payload, waited,
                    tpc, sessions, port_owner >>

chat == Operation("chat")

get_context == Operation("get_context")

get_identity == Operation("get_identity")

refresh_context == Operation("refresh_context")

get_conversation_history == Operation("get_conversation_history")

clear_conversation_history == Operation("clear_conversation_history")

flush == Operation("flush")

get_validation_stats == Operation("get_validation_stats")

-----------------------------------------------------------------------------
(* Teardown *)

\* runtime.py:155  "if self._runtime_process:" -- the attribute is never
\* reset, so the handle stays truthy once the child was spawned.
process_present_always(p) == TRUE

process_present(p) == p # None

\* Popen.terminate() at line 158: the signal goes out unless the handle
\* already knows the child's exit status.
terminate_sends(c) == c = "running"

\* _stop_local_runtime (lines 153-159), invoked along `path`; `exits`
\* says whether the child exits within wait(timeout=5).
stop_local_runtime(path, exits) ==
    IF process_present(runtime_process)
    THEN /\ signals' = IF terminate_sends(child) THEN signals + 1 ELSE signals
         /\ child' = IF child = "running" /\ ~exits THEN "running" ELSE "exited"
         /\ stopLog' = Append(stopLog,
                [path |-> path, terminate |-> TRUE,
                 signalled |-> terminate_sends(child),
                 raised |-> IF child = "running" /\ ~exits
                            THEN "TimeoutExpired" ELSE "none"])
    ELSE /\ stopLog' = Append(stopLog,
                [path |-> path, terminate |-> FALSE, signalled |-> FALSE,
                 raised |-> "none"])
         /\ UNCHANGED << signals, child >>

\* __exit__ (lines 351-354): the with-block is left, normally (exc = FALSE)
\* or by an exception unwinding through it (exc = TRUE).
exit_ ==
    /\ pc = "live"
    /\ pc' = "closed"
    /\ \E exc \in BOOLEAN :
          endedBy' = IF exc THEN "scope_exception" ELSE "scope_normal"
    /\ IF use_local_runtime
       THEN \E exits \in BOOLEAN : stop_local_runtime("__exit__", exits)
       ELSE UNCHANGED << signals, child, stopLog >>
    /\ UNCHANGED << use_local_runtime, runtime_url, runtime_process, spawns,
                    probes, last_health, atexit_hooks, finalized, calls,
                    init_status, outcome, constructed, options, init_payload,
                    invocations, last_body, waited,
                    tpc, sessions, port_owner >>

\* Interpreter exit: the callbacks registered at line 148 run.
process_exit ==
    /\ pc \in {"live", "closed", "failed"}
    /\ pc' = "exited"
    /\ endedBy' = IF pc = "live" THEN "process_exit" ELSE endedBy
    /\ IF "_stop_local_runtime" \in atexit_hooks
       THEN \E exits \in BOOLEAN : stop_local_runtime("atexit", exits)
       ELSE UNCHANGED << signals, child, stopLog >>
    /\ UNCHANGED << use_local_runtime, runtime_url, runtime_process, spawns,
                    probes, last_health, atexit_hooks, finalized, calls,
                    init_status, outcome, constructed, options, init_payload,
                    invocations, last_body, waited,
                    tpc, sessions, port_owner >>

\* __del__ (lines 356-359): runs once the object is unreachable; the
\* registered bound method keeps the object alive until interpreter exit.
del_ ==
    /\ ~finalized
    /\ pc \in {"failed", "closed", "exited"}
    /\ atexit_hooks = {} \/ pc = "exited"
    /\ finalized' = TRUE
    /\ IF use_local_runtime
       THEN \E exits \in BOOLEAN : stop_local_runtime("__del__", exits)
       ELSE UNCHANGED << signals, child, stopLog >>
    /\ UNCHANGED << use_local_runtime, pc, runtime_url, runtime_process,
                    spawns, probes, last_health, atexit_hooks, calls,
                    init_status, outcome, constructed, endedBy, options,
                    init_payload, invocations, last_body, waited,
                    tpc, sessions, port_owner >>

-----------------------------------------------------------------------------
Next ==
    \/ init_remote
    \/ start_local_runtime_spawn
    \/ start_local_runtime_spawn_fails
    \/ start_local_runtime_probe
    \/ start_local_runtime_exhausted
    \/ start_local_runtime_initialize
    \/ chat
    \/ get_context
    \/ get_identity
    \/ refresh_context
    \/ get_conversation_history
    \/ clear_conversation_history
    \/ flush
    \/ get_validation_stats
    \/ exit_
    \/ process_exit
    \/ del_

Spec == Init /\ [][Next]_vars

-----------------------------------------------------------------------------
(* Concurrent teardown: _stop_local_runtime (lines 153-159) holds no lock,  *)
(* so two requests interleave at its three steps.                           *)

sessionFrame ==
    << use_local_runtime, pc, runtime_url, runtime_process, spawns, probes,
       last_health, atexit_hooks, finalized, calls, init_status, outcome,
       constructed, endedBy, options, init_payload, invocations, last_body,
       waited, sessions, port_owner >>

\* Line 155: the request reads self._runtime_process.  __exit__ gets here
\* through line 353, the hook through the registration of line 148.
stop_check(t) ==
    /\ pc = "live"
    /\ use_local_runtime
    /\ "_stop_local_runtime" \in atexit_hooks
    /\ tpc[t] = "idle"
    /\ tpc' = [tpc EXCEPT ![t] = IF process_present(runtime_process)
                                  THEN "checked" ELSE "done"]
    /\ UNCHANGED << signals, child, stopLog >>
    /\ UNCHANGED sessionFrame

\* Line 158: self._runtime_process.terminate()
stop_terminate(t) ==
    /\ tpc[t] = "checked"
    /\ tpc' = [tpc EXCEPT ![t] = IF terminate_sends(child)
                                  THEN "sent" ELSE "skipped"]
    /\ signals' = IF terminate_sends(child) THEN signals + 1 ELSE signals
    /\ UNCHANGED << child, stopLog >>
    /\ UNCHANGED sessionFrame

\* Line 159: self._runtime_process.wait(timeout=5)
stop_wait(t) ==
    /\ tpc[t] \in {"sent", "skipped"}
    /\ tpc' = [tpc EXCEPT ![t] = "done"]
    /\ \E exits \in BOOLEAN :
          /\ child' = IF child = "running" /\ ~exits THEN "running"
                       ELSE "exited"
          /\ stopLog' = Append(stopLog,
                 [path |-> t, terminate |-> TRUE,
                  signalled |-> (tpc[t] = "sent"),
                  raised |-> IF child = "running" /\ ~exits
                             THEN "TimeoutExpired" ELSE "none"])
    /\ UNCHANGED signals
    /\ UNCHANGED sessionFrame

NextConc ==
    \/ start_local_runtime_spawn
    \/ start_local_runtime_probe
    \/ start_local_runtime_exhausted
    \/ start_local_runtime_initialize
    \/ \E t \in Teardowns : stop_check(t)
    \/ \E t \in Teardowns : stop_terminate(t)
    \/ \E t \in Teardowns : stop_wait(t)

InitConc == Init /\ use_local_runtime

SpecConc == InitConc /\ [][NextConc]_vars

-----------------------------------------------------------------------------
(* Two local sessions on one host.  Both children get PORT=3000 (lines      *)
(* 119-124) and both sessions probe http://localhost:3000/health; the port  *)
(* is held by the child that listened first, and a /health request is       *)
(* answered by whoever holds the port.                                      *)

hostFrame ==
    << use_local_runtime, pc, runtime_url, runtime_process, child, spawns,
       probes, last_health, atexit_hooks, signals, stopLog, finalized, calls,
       init_status, outcome, constructed, endedBy, options, init_payload,
       invocations, last_body, waited, tpc >>

\* Lines 118-131 for session s: the port is the literal 3000, the child is
\* spawned with it.
host_spawn(s) ==
    /\ sessions[s].pc = "start"
    /\ sessions' = [sessions EXCEPT ![s].pc = "probing",
                                    ![s].child = "starting"]
    /\ UNCHANGED port_owner
    /\ UNCHANGED hostFrame

\* The child of session s tries to listen on its PORT: it gets the port
\* when nobody holds it, else the bind fails.
host_child_listens(s) ==
    /\ sessions[s].child = "starting"
    /\ IF port_owner = 0
       THEN /\ port_owner' = s
            /\ sessions' = [sessions EXCEPT ![s].child = "listening"]
       ELSE /\ sessions' = [sessions EXCEPT ![s].child = "unbound"]
            /\ UNCHANGED port_owner
    /\ UNCHANGED hostFrame

\* One iteration of the readiness loop of session s (lines 135-143): the
\* request goes to port 3000 whoever listens there.
host_probe(s) ==
    /\ sessions[s].pc = "probing"
    /\ sessions[s].probes < max_retries
    /\ \E r \in Responses :
          /\ r.exchange = (port_owner # 0)
          /\ sessions' =
                [sessions EXCEPT
                    ![s].probes = @ + 1,
                    ![s].pc = IF probe_ready(r) THEN "healthy" ELSE "probing",
                    ![s].backend = IF probe_ready(r) THEN port_owner ELSE @]
    /\ UNCHANGED port_owner
    /\ UNCHANGED hostFrame

\* Lines 144-145 for session s.
host_exhausted(s) ==
    /\ sessions[s].pc = "probing"
    /\ sessions[s].probes = max_retries
    /\ sessions' = [sessions EXCEPT ![s].pc = "failed"]
    /\ UNCHANGED port_owner
    /\ UNCHANGED hostFrame

\* Teardown of the healthy session s (lines 153-159): its own child is
\* terminated and, when it held the port, the port is free again.
host_stop(s) ==
    /\ sessions[s].pc = "healthy"
    /\ sessions' = [sessions EXCEPT ![s].pc = "closed", ![s].child = "exited"]
    /\ port_owner' = IF port_owner = s THEN 0 ELSE port_owner
    /\ UNCHANGED hostFrame

NextHost ==
    \/ \E s \in Sessions : host_spawn(s)
    \/ \E s \in Sessions : host_child_listens(s)
    \/ \E s \in Sessions : host_probe(s)
    \/ \E s \in Sessions : host_exhausted(s)
    \/ \E s \in Sessions : host_stop(s)

SpecHost == InitConc /\ [][NextHost]_vars

SpecConfig == InitAnyConfig /\ [][Next]_vars

TypeOK ==
    /\ use_local_runtime \in BOOLEAN
    /\ pc \in {"start", "probing", "healthy", "live", "failed", "closed",
               "exited"}
    /\ runtime_url \in {None, api_url, local_url}
    /\ runtime_process \in {None, "Popen"}
    /\ child \in {"none", "running", "exited"}
    /\ spawns \in 0..1
    /\ probes \in 0..max_retries
    /\ last_health \in HttpStatuses \cup {0}
    /\ atexit_hooks \subseteq {"_stop_local_runtime"}
    /\ signals \in 0..3
    /\ Len(stopLog) <= 3
    /\ finalized \in BOOLEAN
    /\ Len(calls) <= 1 + MaxOps
    /\ init_status \in HttpStatuses \cup {0}
    /\ constructed \in BOOLEAN
    /\ endedBy \in {"none", "scope_normal", "scope_exception", "process_exit"}
    /\ options \in Configs
    /\ init_payload \in {<< >>} \cup {<< options_to_dict(o) >> : o \in Configs}
    /\ invocations \in 0..MaxOps
    /\ last_body \in {"none", "text"} \cup Bodies
    /\ waited \in BOOLEAN
    /\ tpc \in [Teardowns -> {"idle", "checked", "sent", "skipped", "done"}]
    /\ port_owner \in Sessions \cup {0}
    /\ \A s \in Sessions :
          /\ sessions[s].pc \in {"start", "probing", "healthy", "failed",
                                  "closed"}
          /\ sessions[s].child \in {"none", "starting", "listening",
                                     "unbound", "exited"}
          /\ sessions[s].probes \in 0..max_retries
          /\ sessions[s].backend \in Sessions \cup {0}

-----------------------------------------------------------------------------
(* Claims *)

LocalSession == use_local_runtime /\ spawns = 1

InitFailedLocally ==
    /\ use_local_runtime
    /\ pc = "failed"
    /\ outcome.op = "__init__"

ProbeBudgetSpent ==
    /\ pc \in {"failed", "exited"}
    /\ outcome.op = "_start_local_runtime"

\* C1: for a local session whose child was spawned, two teardown invocations
\* (the explicit __exit__ and an automatic one) deliver the terminate signal
\* exactly once and the second invocation does not raise.
C1_TeardownTwiceTerminatesOnce ==
    (/\ LocalSession
     /\ Len(stopLog) = 2
     /\ stopLog[1].path = "__exit__"
     /\ stopLog[2].path \in {"atexit", "__del__"})
        => (signals = 1 /\ stopLog[2].raised = "none")

\* C2: when the readiness budget is spent, construction raises
\* RecallBricksError and, when that error reaches the caller, the child is
\* not running.
C2_ExhaustedLeavesNoChild ==
    (pc = "failed" /\ outcome.op = "_start_local_runtime")
        => (outcome.raised = "RecallBricksError" /\ child # "running")

\* C3: when the child is healthy but the init handshake fails, the child is
\* torn down before the construction error reaches the caller.
C3_InitFailureLeavesNoChild ==
    (InitFailedLocally /\ outcome.raised # "none") => child # "running"

\* C4: every way a constructed local session ends (with-block left normally,
\* left by an exception, process exit without a close) has sent the
\* terminate signal to the child.
C4_EveryEndSignalsChild ==
    (use_local_runtime /\ constructed /\ endedBy # "none")
        => (signals >= 1 /\ stopLog # << >> /\ stopLog[1].signalled)

C4_Witness ==
    /\ use_local_runtime
    /\ constructed
    /\ endedBy = "process_exit"
    /\ Len(stopLog) = 1
    /\ stopLog[1].path = "atexit"
    /\ signals = 1

\* C5: one child is spawned, at most 30 probes are issued, no probe is
\* issued once a probe has returned a success status, and failure is
\* declared only after exactly 30 probes.
C5_ProbeBudget ==
    /\ [](spawns <= 1 /\ probes <= max_retries)
    /\ [](ProbeBudgetSpent => probes = max_retries)
    /\ [][probes' # probes => ~Is2xx(last_health)]_vars

\* C6: in local mode the init request and every later RPC go to the child's
\* local endpoint, only after a readiness probe returned a success status,
\* and never when the probe budget was spent.
C6_ReadyBeforeAnyCall ==
    use_local_runtime =>
        /\ \A i \in DOMAIN calls : calls[i].url = local_url
        /\ calls # << >> => Is2xx(last_health)
        /\ ProbeBudgetSpent => calls = << >>

C6_Witness ==
    /\ use_local_runtime
    /\ probes > 1
    /\ Len(calls) >= 2
    /\ calls[1].route = "/init"

\* C7: in remote mode construction issues exactly one init call, to the
\* configured endpoint, and no other RPC is issued before that call has
\* completed successfully.
C7_RemoteInitFirst ==
    (~use_local_runtime /\ pc # "start") =>
        /\ Len(calls) >= 1
        /\ calls[1] = [route |-> "/init", url |-> api_url]
        /\ \A i \in DOMAIN calls : calls[i].route = "/init" => i = 1
        /\ Len(calls) > 1 => Is2xx(init_status)

C7_Witness ==
    /\ ~use_local_runtime
    /\ Len(calls) >= 2
    /\ calls[2].route = "/chat"

\* C8: a connection or timeout failure of the init handshake or of a public
\* operation reaches the caller as APIError with status code 0.
C8_NoExchangeIsAPIErrorZero ==
    (outcome.op \in Operations \cup {"__init__"} /\ ~outcome.response.exchange)
        => (outcome.raised = "APIError" /\ outcome.status_code = 0)

\* C9: a non-2xx response to the init handshake or to a public operation
\* gives APIError carrying the response's status code, and no result.
C9_Non2xxIsAPIError ==
    (/\ outcome.op \in Operations \cup {"__init__"}
     /\ outcome.response.exchange
     /\ ~Is2xx(outcome.response.status_code))
        => /\ outcome.raised = "APIError"
           /\ outcome.status_code = outcome.response.status_code
           /\ outcome.result = "none"

C9_Witness ==
    /\ outcome.op = "get_context"
    /\ outcome.response.status_code = 404
    /\ outcome.raised = "APIError"

\* C10: a non-success response to the init handshake ends construction with
\* an error in both modes: no session is handed to the caller and no public
\* operation is issued through it.
C10_InitRejectedIsFatal ==
    (calls # << >> /\ init_status # 0 /\ ~Is2xx(init_status))
        => /\ ~constructed
           /\ pc \in {"failed", "exited"}
           /\ Len(calls) = 1
           /\ outcome.op = "__init__"
           /\ outcome.raised = "APIError"

C10_Witness ==
    /\ use_local_runtime
    /\ pc = "failed"
    /\ init_status = 500
    /\ outcome.raised = "APIError"

\* C12: a public operation, failing or not, leaves the resolved endpoint,
\* the child-process handle and the stored configuration as they were.
C12_OperationsLeaveSessionUnchanged ==
    [][invocations' # invocations =>
          /\ runtime_url' = runtime_url
          /\ runtime_process' = runtime_process
          /\ options' = options]_vars

C12_Witness ==
    /\ use_local_runtime
    /\ outcome.op \in Operations
    /\ outcome.raised \in {"APIError", "RequestException"}
    /\ runtime_url = local_url
    /\ runtime_process = "Popen"

\* C14: every invocation of a public operation issues exactly one request,
\* whatever its outcome, and /init is sent at most once: only the readiness
\* probe is repeated.
C14_OneRequestPerInvocation ==
    /\ Len(init_payload) <= 1
    /\ Len(calls) = Len(init_payload) + invocations
    /\ \A i \in DOMAIN calls : (calls[i].route = "/init") = (i = 1)

C14_Witness ==
    /\ invocations = 2
    /\ Len(calls) = 3
    /\ outcome.raised = "RequestException"

OptionalRecordOps == {"get_context", "get_identity", "get_validation_stats"}

\* C15: get_context, get_identity and get_validation_stats, on a success
\* response whose body carries no record, return None and raise nothing.
C15_AbsentRecordIsNone ==
    (/\ outcome.op \in OptionalRecordOps
     /\ outcome.response.exchange
     /\ Is2xx(outcome.response.status_code)
     /\ last_body = "empty")
        => (outcome.raised = "none" /\ outcome.result = None)

ValidConfig(o) ==
    /\ o.agent_id # ""
    /\ o.user_id # ""
    /\ o.cache_ttl >= 0
    /\ o.max_context_tokens >= 0

\* C16: every session that exists and every init payload that is sent has
\* non-empty agent and user identifiers and non-negative cache TTL and
\* max-context-tokens; an invalid configuration spawns no child and sends no
\* init call.
C16_ConfigValidated ==
    /\ constructed => ValidConfig(options)
    /\ \A i \in DOMAIN init_payload :
          /\ init_payload[i].agentId # ""
          /\ init_payload[i].userId # ""
          /\ init_payload[i].cacheTTL >= 0
          /\ init_payload[i].maxContextTokens >= 0
    /\ ~ValidConfig(options) => (spawns = 0 /\ calls = << >>)

\* The supervisor's lifecycle state, read off the session.
SupervisorState ==
    IF ~use_local_runtime \/ pc = "start" THEN "NotStarted"
    ELSE IF \E i \in DOMAIN stopLog : stopLog[i].terminate THEN "Stopped"
    ELSE IF outcome.op \in {"Popen", "_start_local_runtime"} THEN "Failed"
    ELSE IF pc = "probing" THEN "Probing"
    ELSE "Healthy"

\* Spawning lies inside the spawn step, so it is never observed.
LifecycleEdges ==
    {<< "NotStarted", "Probing" >>, << "NotStarted", "Failed" >>,
     << "Probing", "Healthy" >>, << "Probing", "Failed" >>,
     << "Healthy", "Stopped" >>}

\* C17: the supervisor moves only along NotStarted -> Spawning -> Probing ->
\* Healthy -> Stopped, with Failed entered from Spawning or Probing; the
\* terminate signal is sent only from Healthy, and once stopped a later stop
\* request finds the supervisor stopped and does not signal the child again.
C17_SupervisorLifecycle ==
    /\ [][SupervisorState' # SupervisorState =>
             << SupervisorState, SupervisorState' >> \in LifecycleEdges]_vars
    /\ [][signals' # signals => SupervisorState = "Healthy"]_vars
    /\ [](\A i \in DOMAIN stopLog :
             \A j \in DOMAIN stopLog :
                 (i < j /\ stopLog[i].terminate) => ~stopLog[j].signalled)

\* C18: a readiness probe that follows a failed one (connection failure or
\* non-success status) is issued only after the supervisor waited one
\* interval.
C18_WaitBetweenProbes ==
    [][(probes' = probes + 1 /\ probes >= 1 /\ ~Is2xx(last_health))
          => waited]_vars

\* C19: the init handshake and every operation raise APIError exactly for the
\* non-2xx responses; any 2xx response is a success.
C19_Any2xxIsSuccess ==
    outcome.op \in Operations \cup {"__init__"} =>
        ((outcome.raised = "APIError")
            = (outcome.response.exchange
               /\ ~Is2xx(outcome.response.status_code)))

TeardownStep ==
    \/ pc = "live" /\ pc' = "closed"
    \/ pc # "exited" /\ pc' = "exited"
    \/ finalized' # finalized

\* C13: with no spawned child (a remote session, a supervisor that never
\* started) teardown never calls terminate, sends no signal, raises nothing,
\* issues no request and leaves the session state as it was.
C13_TeardownWithoutChildIsNoOp ==
    /\ [](runtime_process = None =>
             /\ signals = 0
             /\ \A i \in DOMAIN stopLog :
                   ~stopLog[i].terminate /\ stopLog[i].raised = "none")
    /\ [][(runtime_process = None /\ TeardownStep) =>
             UNCHANGED << calls, signals, child, runtime_url, runtime_process,
                          options, outcome, init_payload >>]_vars

C13_Witness ==
    /\ ~use_local_runtime
    /\ constructed
    /\ pc = "closed"
    /\ finalized
    /\ stopLog = << >>

\* C11: under concurrent teardown requests for one spawned child the
\* terminate signal is sent exactly once: two requests never both pass the
\* process-present check and both terminate.
C11_ConcurrentTeardownTerminatesOnce ==
    /\ signals <= 1
    /\ (\A t \in Teardowns : tpc[t] = "done") => signals = 1

\* C20: a session that reached Healthy saw its readiness success from its
\* own child, and while it is healthy that child is the process serving the
\* endpoint: no teardown of another session takes the backend away.
C20_HealthyMeansOwnChild ==
    \A s \in Sessions :
        sessions[s].pc = "healthy" =>
            (sessions[s].backend = s /\ port_owner = s)

====
